---- MODULE Spec2Model ----
(***************************************************************************)
(* Model of FrankenAgent (src/agents/frankenagent/frankenagent.py), a      *)
(* geniusweb SAOP negotiation party.  One action per protocol event        *)
(* delivered to notifyChange; every action is the whole handler.           *)
(*                                                                         *)
(* Units.  Utilities are Decimals in [0,1]; the model keeps them as        *)
(* integers in units of 1/10000 (weight in percent times value utility in  *)
(* percent).  Progress is a fraction in [0,1]; the model keeps it in       *)
(* percent.                                                                *)
(***************************************************************************)
EXTENDS Integers, Sequences, FiniteSets, TLC

VARIABLES
    pc,                 \* "constructed" until the Settings message, then "ready"
    profile,            \* self.profile / self.domain (a profile name) or None
    storage_dir,        \* self.storage_dir
    other,              \* self.other
    last_received_bid,  \* self.last_received_bid
    opponent_model,     \* self.opponent_model: None or the per-issue value counts
    progress,           \* what self.progress.get(now) returns, in percent
    data_md,            \* content of <storage_dir>/data.md, None while absent
    terminated,         \* super().terminate() has been called
    offers,             \* history: opponent offers handled
    created,            \* history: OpponentModel(...) constructions
    finished,           \* history: Finished events handled
    writes,             \* history: open(.../data.md, "w") attempts
    lastEvent,          \* the event of the handler call that just ended, or None
    raised,             \* the last handler call ended with an exception
    sent,               \* actions the last handler call passed to send_action
    found,              \* <<bid>> if find_bid returned bid in the last handler call
    accepted,           \* <<b>> if accept returned b in the last handler call
    recent_offer,       \* history: the bid of the most recent Offer of another party
    sample_indices,     \* find_bid's random_indices, as a set (SpecFind only)
    similar_bids        \* find_bid's similar_bids_with_concession (SpecFind only)

vars == <<pc, profile, storage_dir, other, last_received_bid, opponent_model,
          progress, data_md, terminated, offers, created, finished, writes,
          lastEvent, raised, sent, found, accepted, recent_offer,
          sample_indices, similar_bids>>

\* Python's None: in a string-valued field, and in a field that holds a bid
\* or an opponent model (both are functions on 1..n with n >= 1)
None == "None"
NoBid == <<>>
NoModel == <<>>
Me == "me_1"

(***************************************************************************)
(* Bounds of the model.                                                    *)
(***************************************************************************)
MaxOffers == 2
MaxFinished == 1

(***************************************************************************)
(* Program constants.                                                      *)
(***************************************************************************)
\* accept(..., T=0.95), in percent
T == 95
\* max_bids_to_check
max_bids_to_check == 500
\* Decimal(0.9) in units of 1/10000.  Decimal(0.9) is the exact value of the
\* binary float 0.9 = 0.9000000000000000222..., a little MORE than 9000
\* units; WithConcession below accounts for the excess.
ConcessionMargin == 9000

Min(a, b) == IF a < b THEN a ELSE b

RECURSIVE SumTo(_, _)
SumTo(f, n) == IF n = 0 THEN 0 ELSE f[n] + SumTo(f, n - 1)

RECURSIVE ProductTo(_, _)
ProductTo(f, n) == IF n = 0 THEN 1 ELSE f[n] * ProductTo(f, n - 1)

(***************************************************************************)
(* The profiles a session can be set up with (the environment's input to   *)
(* Settings).  A profile is a linear additive utility space: per issue a   *)
(* weight (percent) and per value a utility (percent).                     *)
(*   "party6":   2 issues, 2 x 3 values, 6 bids                            *)
(*   "party1":   1 issue, 1 value, 1 bid                                   *)
(*   "party4":   2 issues, 2 x 2 values, 4 bids with utilities 1, 0.9, 0.1 *)
(*               and 0 (used where find_bid is examined on its own)        *)
(*   "party501": 1 issue with max_bids_to_check + 1 values: one bid more   *)
(*               than find_bid samples; value 1 is worth 100, every other  *)
(*               value at most 9.                                          *)
(***************************************************************************)
ProfileNames == {"party6", "party1", "party501"}

LargeDomainSize == max_bids_to_check + 1

NumValues(p) ==
    CASE p = "party6" -> <<2, 3>>
      [] p = "party4" -> <<2, 2>>
      [] p = "party1" -> <<1>>
      [] p = "party501" -> <<LargeDomainSize>>

IssueWeight(p) ==
    CASE p = "party6" -> <<50, 50>>
      [] p = "party4" -> <<90, 10>>
      [] p = "party1" -> <<100>>
      [] p = "party501" -> <<100>>

ValueUtility(p, i, v) ==
    CASE p = "party6" -> (IF i = 1 THEN <<100, 0>> ELSE <<100, 20, 0>>)[v]
      [] p = "party4" -> <<100, 0>>[v]
      [] p = "party1" -> 100
      [] p = "party501" -> IF v = 1 THEN 100 ELSE v % 10

Issues(p) == 1..Len(NumValues(p))

\* AllBidsList(domain).size()
size(p) == ProductTo(NumValues(p), Len(NumValues(p)))

\* AllBidsList(domain).get(index): the index-th element of the cross product
\* of the issues' value lists, first issue varying fastest; index in 0..size-1
get(p, index) ==
    [i \in Issues(p) |->
        ((index \div ProductTo(NumValues(p), i - 1)) % NumValues(p)[i]) + 1]

\* every bid of the domain
AllBids(p) == {get(p, index) : index \in 0..(size(p) - 1)}

\* self.profile.getUtility(bid) for a bid of the domain
getUtility(p, bid) ==
    SumTo([i \in Issues(p) |-> IssueWeight(p)[i] * ValueUtility(p, i, bid[i])],
          Len(NumValues(p)))

(***************************************************************************)
(* Bids and actions.                                                       *)
(***************************************************************************)
Offer(actor, bid) == [type |-> "Offer", actor |-> actor, bid |-> bid]
Accept(actor, bid) == [type |-> "Accept", actor |-> actor, bid |-> bid]

(***************************************************************************)
(* find_bid                                                                *)
(***************************************************************************)
\* the k-element subsets of a set of integers
RECURSIVE KSubsets(_, _)
KSubsets(S, k) ==
    IF k = 0 THEN {{}}
    ELSE UNION {{{x} \cup R : R \in KSubsets({y \in S : y > x}, k - 1)} : x \in S}

\* faulty variant of random_indices: random.sample over range(num_bids - 1)
random_indices_off_by_one(num_bids) ==
    LET k == Min(num_bids - 1, max_bids_to_check)
    IN  {(0..(num_bids - 2)) \ skipped :
            skipped \in KSubsets(0..(num_bids - 2), num_bids - 1 - k)}

\* random.sample(range(num_bids), min(num_bids, max_bids_to_check)): every
\* selection of that many distinct indices can come out.  The order of the
\* sample is dropped (only a uniform choice is made from it afterwards), and
\* a selection is written as the indices it leaves out.
random_indices(num_bids) ==
    LET k == Min(num_bids, max_bids_to_check)
    IN  {(0..(num_bids - 1)) \ skipped :
            skipped \in KSubsets(0..(num_bids - 1), num_bids - k)}

\* faulty variant of the filter: no concession margin
WithConcession_no_margin(bid_utility, previous_offer_utility) ==
    bid_utility > previous_offer_utility

\* bid_utility > previous_offer_utility - Decimal(0.9).  Decimal(0.9) is
\* 0.9 + 2.2e-17, so for utilities that are multiples of 1/10000 the strict
\* comparison against the slightly lower threshold also lets through a bid
\* whose utility is exactly previous_offer_utility - 0.9.
WithConcession(bid_utility, previous_offer_utility) ==
    bid_utility >= previous_offer_utility - ConcessionMargin

\* similar_bids_with_concession for one sample
similar_bids_with_concession(p, sample, previous_offer_utility) ==
    {get(p, index) : index \in
        {i \in sample :
            WithConcession(getUtility(p, get(p, i)), previous_offer_utility)}}

\* find_bid with an off-by-one draw in the fallback: it chooses among the
\* bids whose values are one further in every issue (a faulty variant, for
\* the sensitivity of the properties about find_bid)
find_bid_off_by_one(p, last) ==
    IF last = NoBid THEN [raises |-> TRUE, bids |-> {}]
    ELSE LET previous_offer_utility == getUtility(p, last)
         IN  [raises |-> FALSE,
              bids |-> UNION {LET similar == similar_bids_with_concession(
                                       p, sample, previous_offer_utility)
                              IN  IF similar = {}
                                  THEN {[i \in Issues(p) |-> b[i] + 1] : b \in AllBids(p)}
                                  ELSE similar
                              : sample \in random_indices(size(p))}]

\* find_bid with self.last_received_bid = last.  raises: the call ends with
\* an exception, which it does when last is None: self.profile.getUtility(None)
\* dereferences the bid (bid.getValue(issue)), an AttributeError.  bids: the
\* bids the call can return, one per outcome of the random draws;
\* random.choice(all_bids) is a uniform draw from the whole AllBidsList.
find_bid(p, last) ==
    IF last = NoBid THEN [raises |-> TRUE, bids |-> {}]
    ELSE LET previous_offer_utility == getUtility(p, last)
         IN  [raises |-> FALSE,
              bids |-> UNION {LET similar == similar_bids_with_concession(
                                       p, sample, previous_offer_utility)
                              IN  IF similar = {} THEN AllBids(p) ELSE similar
                              : sample \in random_indices(size(p))}]

(***************************************************************************)
(* accept                                                                  *)
(***************************************************************************)
\* faulty variants of accept: without the None guard, with progress >= T,
\* and with >= between the utilities
accept_unguarded(p, my_upcoming_bid, opponent_offer, prog) ==
    \/ /\ opponent_offer # NoBid
       /\ getUtility(p, opponent_offer) > getUtility(p, my_upcoming_bid)
    \/ prog > T

accept_at_threshold(p, my_upcoming_bid, opponent_offer, prog) ==
    IF opponent_offer = NoBid THEN FALSE
    ELSE \/ getUtility(p, opponent_offer) > getUtility(p, my_upcoming_bid)
         \/ prog >= T

accept_on_tie(p, my_upcoming_bid, opponent_offer, prog) ==
    IF opponent_offer = NoBid THEN FALSE
    ELSE \/ getUtility(p, opponent_offer) >= getUtility(p, my_upcoming_bid)
         \/ prog > T

\* a further faulty variant: both conditions required
accept_needs_both(p, my_upcoming_bid, opponent_offer, prog) ==
    IF opponent_offer = NoBid THEN FALSE
    ELSE /\ getUtility(p, opponent_offer) > getUtility(p, my_upcoming_bid)
         /\ prog > T

accept(p, my_upcoming_bid, opponent_offer, prog) ==
    IF opponent_offer = NoBid THEN FALSE
    ELSE \/ getUtility(p, opponent_offer) > getUtility(p, my_upcoming_bid)
         \/ prog > T

(***************************************************************************)
(* OpponentModel (utils/opponent_model.py is not part of the sources; it   *)
(* is modelled from the specification: per issue, per value, a count).     *)
(***************************************************************************)
OpponentModel(p) == [i \in Issues(p) |-> [v \in 1..NumValues(p)[i] |-> 0]]

update(model, bid) ==
    [i \in DOMAIN model |-> [model[i] EXCEPT ![bid[i]] = @ + 1]]

(***************************************************************************)
(* Environment.                                                            *)
(***************************************************************************)
\* values the "storage_dir" parameter can have; None when it is not supplied
StorageDirs == {None, "storage"}
\* directories that exist; open("None/data.md", "w") fails
ExistingDirs == {"storage"}
\* values of the progress fraction the clock passes through, in percent
ProgressLevels == {0, 95, 96}
\* the bids the opponent offers, by index in AllBidsList
OfferedIndices(p) == IF size(p) <= 6 THEN 0..(size(p) - 1) ELSE {0, 1}
OpponentOffers(p) == {get(p, index) : index \in OfferedIndices(p)}

\* find_bid for every state my_turn can call it in (evaluated once)
FindBidTable ==
    [p \in ProfileNames |->
        [last \in OpponentOffers(p) \cup {NoBid} |-> find_bid(p, last)]]

\* FrankenAgent.__init__ never assigns self.logger (it uses
\* self.getReporter() directly) and DefaultParty defines none, so reading
\* self.logger raises AttributeError.
HasLogger == FALSE

(***************************************************************************)
(* State after FrankenAgent().                                             *)
(***************************************************************************)
Init ==
    /\ pc = "constructed"
    /\ profile = None
    /\ storage_dir = None
    /\ other = None
    /\ last_received_bid = NoBid
    /\ opponent_model = NoModel
    /\ progress = 0
    /\ data_md = None
    /\ terminated = FALSE
    /\ offers = 0
    /\ created = 0
    /\ finished = 0
    /\ writes = 0
    /\ lastEvent = None
    /\ raised = FALSE
    /\ sent = <<>>
    /\ found = <<>>
    /\ accepted = <<>>
    /\ recent_offer = NoBid
    /\ sample_indices = {}
    /\ similar_bids = {}

\* the handler call for event has ended, with an exception or without
Handled(event, exception) ==
    /\ lastEvent' = event
    /\ raised' = exception

\* notifyChange(Settings): the first message of a session (lines 64-65)
Settings ==
    /\ pc = "constructed" /\ lastEvent = None
    /\ \E p \in ProfileNames, dir \in StorageDirs :
          /\ profile' = p
          /\ storage_dir' = dir
    /\ pc' = "ready"
    /\ Handled("Settings", FALSE)
    /\ sent' = <<>> /\ found' = <<>> /\ accepted' = <<>>
    /\ UNCHANGED <<recent_offer, sample_indices, similar_bids>>
    /\ UNCHANGED <<other, last_received_bid, opponent_model, progress, data_md,
                   terminated, offers, created, finished, writes>>

\* the wall clock advances: self.progress.get(time() * 1000) never decreases
Tick ==
    /\ pc = "ready" /\ lastEvent = None
    /\ \E later \in ProgressLevels : later > progress /\ progress' = later
    /\ UNCHANGED <<recent_offer, sample_indices, similar_bids>>
    /\ UNCHANGED <<pc, profile, storage_dir, other, last_received_bid,
                   opponent_model, data_md, terminated, offers, created,
                   finished, writes, lastEvent, raised, sent, found, accepted>>

\* faulty variants of opponent_action: one that builds a new OpponentModel for every
\* offer, one that does not update the model
opponent_action_new_model(p, model, bid) ==
    [opponent_model |-> update(OpponentModel(p), bid),
     last_received_bid |-> bid,
     constructions |-> 1]

opponent_action_no_update(p, model, bid) ==
    [opponent_model |-> IF model = NoModel THEN OpponentModel(p) ELSE model,
     last_received_bid |-> bid,
     constructions |-> IF model = NoModel THEN 1 ELSE 0]

\* further faulty variants: one that updates the model twice, one that keeps
\* the first bid as the last received bid, one that does not store the bid
opponent_action_update_twice(p, model, bid) ==
    LET existing == IF model = NoModel THEN OpponentModel(p) ELSE model
    IN  [opponent_model |-> update(update(existing, bid), bid),
         last_received_bid |-> bid,
         constructions |-> IF model = NoModel THEN 1 ELSE 0]

opponent_action_keeps_first(p, model, bid) ==
    LET existing == IF model = NoModel THEN OpponentModel(p) ELSE model
    IN  [opponent_model |-> update(existing, bid),
         last_received_bid |-> IF model = NoModel THEN bid ELSE last_received_bid,
         constructions |-> IF model = NoModel THEN 1 ELSE 0]

opponent_action_bid_not_stored(p, model, bid) ==
    LET existing == IF model = NoModel THEN OpponentModel(p) ELSE model
    IN  [opponent_model |-> update(existing, bid),
         last_received_bid |-> last_received_bid,
         constructions |-> IF model = NoModel THEN 1 ELSE 0]

\* opponent_action(action) for an Offer: the state it leaves behind
opponent_action(p, model, bid) ==
    LET existing == IF model = NoModel THEN OpponentModel(p) ELSE model
    IN  [opponent_model |-> update(existing, bid),
         last_received_bid |-> bid,
         constructions |-> IF model = NoModel THEN 1 ELSE 0]

\* notifyChange(ActionDone(Offer(opponent, bid)))
ActionDoneOffer ==
    /\ pc = "ready" /\ lastEvent = None
    /\ offers < MaxOffers
    /\ \E bid \in OpponentOffers(profile) :
          LET after == opponent_action(profile, opponent_model, bid)
          IN  /\ opponent_model' = after.opponent_model
              /\ last_received_bid' = after.last_received_bid
              /\ created' = created + after.constructions
              /\ recent_offer' = bid
    /\ other' = "opp"
    /\ offers' = offers + 1
    /\ Handled("OpponentOffer", FALSE)
    /\ sent' = <<>> /\ found' = <<>> /\ accepted' = <<>>
    /\ UNCHANGED <<sample_indices, similar_bids>>
    /\ UNCHANGED <<pc, profile, storage_dir, progress, data_md, terminated,
                   finished, writes>>

\* notifyChange(ActionDone(Accept(opponent, bid))): opponent_action does
\* nothing for an action that is not an Offer
ActionDoneAccept ==
    /\ pc = "ready" /\ lastEvent = None
    /\ other' = "opp"
    /\ Handled("OpponentAccept", FALSE)
    /\ sent' = <<>> /\ found' = <<>> /\ accepted' = <<>>
    /\ UNCHANGED <<recent_offer, sample_indices, similar_bids>>
    /\ UNCHANGED <<pc, profile, storage_dir, last_received_bid, opponent_model,
                   progress, data_md, terminated, offers, created, finished,
                   writes>>

\* faulty variant of the handler: without the test on the actor, the agent's
\* own Offer is processed as an opponent's
ActionDoneOwnProcessed ==
    /\ pc = "ready" /\ lastEvent = None
    /\ \E bid \in OpponentOffers(profile) :
          LET after == opponent_action(profile, opponent_model, bid)
          IN  /\ opponent_model' = after.opponent_model
              /\ last_received_bid' = after.last_received_bid
              /\ created' = created + after.constructions
    /\ Handled("OwnAction", FALSE)
    /\ sent' = <<>> /\ found' = <<>> /\ accepted' = <<>>
    /\ UNCHANGED <<recent_offer, sample_indices, similar_bids>>
    /\ UNCHANGED <<pc, profile, storage_dir, other, progress, data_md,
                   terminated, offers, finished, writes>>

\* notifyChange(ActionDone(action)) with action.getActor() = self.me
ActionDoneOwn ==
    /\ pc = "ready" /\ lastEvent = None
    /\ Handled("OwnAction", FALSE)
    /\ sent' = <<>> /\ found' = <<>> /\ accepted' = <<>>
    /\ UNCHANGED <<recent_offer, sample_indices, similar_bids>>
    /\ UNCHANGED <<pc, profile, storage_dir, other, last_received_bid,
                   opponent_model, progress, data_md, terminated, offers,
                   created, finished, writes>>

\* faulty variant of my_turn that accepts with its own bid
my_turn_accept_own_bid(p, bid, last, prog) ==
    IF accept(p, bid, last, prog) THEN Accept(Me, bid) ELSE Offer(Me, bid)

\* my_turn() once find_bid has returned bid: the action handed to send_action
my_turn(p, bid, last, prog) ==
    IF accept(p, bid, last, prog) THEN Accept(Me, last) ELSE Offer(Me, bid)

\* faulty variant of the handler: the last received bid is cleared once it
\* has been answered
YourTurnConsumesBid ==
    /\ pc = "ready" /\ lastEvent = None
    /\ LET search == FindBidTable[profile][last_received_bid]
       IN  IF search.raises
           THEN /\ Handled("YourTurn", TRUE)
                /\ sent' = <<>> /\ found' = <<>> /\ accepted' = <<>>
           ELSE \E bid \in search.bids :
                   /\ found' = <<bid>>
                   /\ accepted' = <<accept(profile, bid, last_received_bid, progress)>>
                   /\ sent' = <<my_turn(profile, bid, last_received_bid, progress)>>
                   /\ Handled("YourTurn", FALSE)
    /\ last_received_bid' = NoBid
    /\ UNCHANGED <<recent_offer, sample_indices, similar_bids>>
    /\ UNCHANGED <<pc, profile, storage_dir, other, opponent_model, progress,
                   data_md, terminated, offers, created, finished, writes>>

\* notifyChange(YourTurn)
YourTurn ==
    /\ pc = "ready" /\ lastEvent = None
    /\ LET search == FindBidTable[profile][last_received_bid]
       IN  IF search.raises
           THEN /\ Handled("YourTurn", TRUE)
                /\ sent' = <<>> /\ found' = <<>> /\ accepted' = <<>>
           ELSE \E bid \in search.bids :
                   /\ found' = <<bid>>
                   /\ accepted' = <<accept(profile, bid, last_received_bid, progress)>>
                   \* send_action: self.getConnection() is None once
                   \* terminate() has disconnected the party
                   /\ IF terminated
                      THEN sent' = <<>> /\ Handled("YourTurn", TRUE)
                      ELSE /\ sent' = <<my_turn(profile, bid, last_received_bid, progress)>>
                           /\ Handled("YourTurn", FALSE)
    /\ UNCHANGED <<recent_offer, sample_indices, similar_bids>>
    /\ UNCHANGED <<pc, profile, storage_dir, other, last_received_bid,
                   opponent_model, progress, data_md, terminated, offers,
                   created, finished, writes>>

\* save_data(): open(f"{self.storage_dir}/data.md", "w") and write; TRUE when
\* the file could be opened
save_data(dir) == dir \in ExistingDirs

\* notifyChange(Finished): save_data(), then self.logger.log(...), then
\* super().terminate(); an exception in one step skips the steps after it
Finished ==
    /\ pc = "ready" /\ lastEvent = None
    /\ finished < MaxFinished
    /\ finished' = finished + 1
    /\ writes' = writes + 1
    /\ LET written == save_data(storage_dir)
           logged == written /\ HasLogger
       IN  /\ data_md' = IF written THEN "Data for learning (see README.md)"
                         ELSE data_md
           /\ terminated' = (terminated \/ logged)
           /\ Handled("Finished", ~logged)
    /\ sent' = <<>> /\ found' = <<>> /\ accepted' = <<>>
    /\ UNCHANGED <<recent_offer, sample_indices, similar_bids>>
    /\ UNCHANGED <<pc, profile, storage_dir, other, last_received_bid,
                   opponent_model, progress, offers, created>>

\* notifyChange(data) for any other Inform: self.logger.log(WARNING, ...)
UnknownInfo ==
    /\ pc = "ready" /\ lastEvent = None
    /\ Handled("Unknown", ~HasLogger)
    /\ sent' = <<>> /\ found' = <<>> /\ accepted' = <<>>
    /\ UNCHANGED <<recent_offer, sample_indices, similar_bids>>
    /\ UNCHANGED <<pc, profile, storage_dir, other, last_received_bid,
                   opponent_model, progress, data_md, terminated, offers,
                   created, finished, writes>>

\* The caller of notifyChange (the connection) takes what the call produced,
\* the actions sent and the exception if any, before it delivers the next
\* event: the variables that describe the last call are cleared.
Collect ==
    /\ lastEvent # None
    /\ lastEvent' = None
    /\ raised' = FALSE
    /\ sent' = <<>> /\ found' = <<>> /\ accepted' = <<>>
    /\ UNCHANGED <<recent_offer, sample_indices, similar_bids>>
    /\ UNCHANGED <<pc, profile, storage_dir, other, last_received_bid,
                   opponent_model, progress, data_md, terminated, offers,
                   created, finished, writes>>

Next ==
    \/ Settings
    \/ Collect
    \/ Tick
    \/ ActionDoneOffer
    \/ ActionDoneAccept
    \/ ActionDoneOwn
    \/ YourTurn
    \/ Finished
    \/ UnknownInfo

Spec == Init /\ [][Next]_vars

(***************************************************************************)
(* accept as a function of its inputs: a second specification that draws   *)
(* the upcoming bid, the opponent's offer (None included) and the progress *)
(* and calls accept once.                                                  *)
(***************************************************************************)
AcceptProfiles == {"party6", "party1"}
AcceptProgress == {0, 50, 95, 96, 100}

InitAccept ==
    /\ pc = "accept"
    /\ profile \in AcceptProfiles
    /\ last_received_bid \in AllBids(profile) \cup {NoBid}
    /\ found \in {<<bid>> : bid \in AllBids(profile)}
    /\ progress \in AcceptProgress
    /\ storage_dir = None
    /\ other = None
    /\ opponent_model = NoModel
    /\ data_md = None
    /\ terminated = FALSE
    /\ offers = 0
    /\ created = 0
    /\ finished = 0
    /\ writes = 0
    /\ lastEvent = None
    /\ raised = FALSE
    /\ sent = <<>>
    /\ accepted = <<>>
    /\ recent_offer = last_received_bid
    /\ sample_indices = {}
    /\ similar_bids = {}

\* self.accept(my_upcoming_bid, opponent_offer)
AcceptCall ==
    /\ pc = "accept" /\ lastEvent = None
    /\ accepted' = <<accept(profile, found[1], last_received_bid, progress)>>
    /\ lastEvent' = "accept"
    /\ UNCHANGED <<recent_offer, sample_indices, similar_bids>>
    /\ UNCHANGED <<pc, profile, storage_dir, other, last_received_bid,
                   opponent_model, progress, data_md, terminated, offers,
                   created, finished, writes, raised, sent, found>>

NextAccept == AcceptCall

SpecAccept == InitAccept /\ [][NextAccept]_vars

(***************************************************************************)
(* Properties.                                                             *)
(***************************************************************************)
\* a my_turn call that ended after an opponent offer had been received
TurnAfterOffer == lastEvent = "YourTurn" /\ offers >= 1

\* C1: a YourTurn event that arrives after an opponent offer has been received
\* is answered with exactly one action, and that action is either the Offer
\* of the bid find_bid returned or the Accept of the last received bid.
C1_OneActionPerTurn ==
    TurnAfterOffer =>
        /\ Len(sent) = 1
        /\ Len(found) = 1
        /\ sent[1] \in {Offer(Me, found[1]), Accept(Me, last_received_bid)}

C1_Witness ==
    /\ TurnAfterOffer
    /\ Len(sent) = 1
    /\ sent[1] = Accept(Me, last_received_bid)
    /\ found[1] # last_received_bid
    /\ progress <= T

\* C2: a YourTurn event that arrives before any opponent bid has been received
\* does not fail: the turn ends with one Offer sent.
C2_FirstTurnOffers ==
    (lastEvent = "YourTurn" /\ offers = 0) =>
        /\ ~raised
        /\ Len(sent) = 1
        /\ sent[1].type = "Offer"

\* C3: accept returns false whenever the opponent's offer is absent, whatever
\* the progress and the upcoming bid.
C3_NoOfferNoAccept ==
    (lastEvent = "accept" /\ last_received_bid = NoBid) => accepted = <<FALSE>>

C3_Witness ==
    /\ lastEvent = "accept"
    /\ last_received_bid = NoBid
    /\ progress > T
    /\ accepted = <<FALSE>>

\* C4: with an opponent offer present accept returns true whenever
\* progress > T, whatever the utilities; at progress = T the time condition
\* does not hold and accept returns true only if the utility condition holds.
C4_TimeForcesAccept ==
    (lastEvent = "accept" /\ last_received_bid # NoBid) =>
        /\ progress > T => accepted = <<TRUE>>
        /\ progress = T =>
              (accepted[1] <=> getUtility(profile, last_received_bid)
                                  > getUtility(profile, found[1]))

C4_Witness ==
    /\ lastEvent = "accept"
    /\ last_received_bid # NoBid
    /\ progress = 96
    /\ getUtility(profile, last_received_bid) < getUtility(profile, found[1])
    /\ accepted = <<TRUE>>

\* C5: with an opponent offer present and progress <= T a turn accepts if and
\* only if the own utility of the opponent's bid is strictly greater than that
\* of the upcoming bid; with equal utilities the agent sends its Offer.
C5_AcceptIffBetter ==
    (TurnAfterOffer /\ ~raised /\ progress <= T) =>
        LET theirs == getUtility(profile, last_received_bid)
            mine == getUtility(profile, found[1])
        IN  /\ accepted[1] <=> theirs > mine
            /\ sent[1].type = "Accept" <=> theirs > mine
            /\ theirs = mine => sent[1] = Offer(Me, found[1])

C5_Witness ==
    /\ TurnAfterOffer /\ ~raised /\ progress <= T
    /\ found[1] # last_received_bid
    /\ getUtility(profile, last_received_bid) = getUtility(profile, found[1])
    /\ sent = <<Offer(Me, found[1])>>

\* C6: whenever an opponent bid has been received find_bid returns, and what
\* it returns is a bid of the domain, on the filtered path and on the
\* fallback path, in domains smaller and larger than the sample.
C6_FoundBidInDomain ==
    TurnAfterOffer =>
        /\ ~raised
        /\ Len(found) = 1
        /\ found[1] \in AllBids(profile)

\* the fallback path: a returned bid that does not pass the filter
C6_Witness ==
    /\ TurnAfterOffer
    /\ size(profile) > max_bids_to_check
    /\ Len(found) = 1
    /\ ~WithConcession(getUtility(profile, found[1]),
                       getUtility(profile, last_received_bid))

\* C7: the opponent model is created at most once, only while an opponent
\* offer is handled, never before the first one, and is kept once created.
C7_ModelCreatedOnce ==
    /\ [](offers = 0 => opponent_model = NoModel /\ created = 0)
    /\ [][/\ created' <= 1
          /\ created' # created => lastEvent' = "OpponentOffer"
          /\ opponent_model # NoModel =>
                opponent_model' # NoModel /\ created' = created]_vars

C7_Witness ==
    /\ created = 1
    /\ offers = 2
    /\ lastEvent = "OpponentOffer"

\* C8: whenever a bid is the last received bid the opponent model has counted
\* it: the count of its value is at least 1 in every issue.
C8_LastBidCounted ==
    last_received_bid # NoBid =>
        /\ opponent_model # NoModel
        /\ \A i \in Issues(profile) :
              opponent_model[i][last_received_bid[i]] >= 1

C8_Witness ==
    /\ lastEvent = "YourTurn"
    /\ offers = 2
    /\ \E i \in Issues(profile) : opponent_model[i][last_received_bid[i]] = 1

\* C9: once a Finished event has been handled no later event makes the agent
\* search, decide or send.
C9_NothingAfterFinished ==
    (finished >= 1 /\ lastEvent \notin {None, "Finished"}) =>
        sent = <<>> /\ found = <<>> /\ accepted = <<>>

\* C10: handling Finished attempts the write once, sends nothing, and ends
\* with the party terminated whether the write succeeded or not.
C10_FinishedTerminates ==
    lastEvent = "Finished" =>
        /\ writes = finished
        /\ sent = <<>>
        /\ terminated

\* the observation count of value v of issue i; 0 while there is no model
Count(model, i, v) == IF model = NoModel THEN 0 ELSE model[i][v]

\* f[lo] + ... + f[hi], by halves
RECURSIVE SumBetween(_, _, _)
SumBetween(f, lo, hi) ==
    IF lo > hi THEN 0
    ELSE IF lo = hi THEN f[lo]
    ELSE LET mid == (lo + hi) \div 2
         IN  SumBetween(f, lo, mid) + SumBetween(f, mid + 1, hi)

\* the observations of issue i, over all its values
Observations(model, p, i) ==
    IF model = NoModel THEN 0 ELSE SumBetween(model[i], 1, NumValues(p)[i])

\* C11: no observation count ever decreases; an opponent offer adds one to
\* the count of the offered value in every issue and leaves the other counts
\* as they were; in every state the counts of every issue sum to the number
\* of opponent offers received.
C11_CountsOnlyGrow ==
    /\ [](pc = "ready" =>
            \A i \in Issues(profile) :
                Observations(opponent_model, profile, i) = offers)
    /\ [][pc = "ready" =>
            \/ opponent_model' = opponent_model /\ offers' = offers
            \/ \A i \in Issues(profile) : \A v \in 1..NumValues(profile)[i] :
                /\ Count(opponent_model', i, v) >= Count(opponent_model, i, v)
                /\ Count(opponent_model', i, v) =
                      Count(opponent_model, i, v)
                      + (IF offers' = offers + 1 /\ recent_offer'[i] = v
                         THEN 1 ELSE 0)]_vars

\* a second offer of a value already counted once
C11_Witness ==
    /\ lastEvent = "OpponentOffer"
    /\ offers = 2
    /\ \E i \in Issues(profile) : opponent_model[i][recent_offer[i]] = 2

(***************************************************************************)
(* find_bid on its own: a third specification that starts after one        *)
(* opponent offer and runs find_bid once, in two steps (the loop over the  *)
(* sample, then the return), keeping the sample and the filtered list.     *)
(***************************************************************************)
FindProfiles == ProfileNames \cup {"party4"}

InitFind ==
    /\ pc = "find_bid"
    /\ profile \in FindProfiles
    /\ last_received_bid \in OpponentOffers(profile)
    /\ recent_offer = last_received_bid
    /\ opponent_model = update(OpponentModel(profile), last_received_bid)
    /\ offers = 1
    /\ created = 1
    /\ other = "opp"
    /\ storage_dir = None
    /\ progress = 0
    /\ data_md = None
    /\ terminated = FALSE
    /\ finished = 0
    /\ writes = 0
    /\ lastEvent = None
    /\ raised = FALSE
    /\ sent = <<>>
    /\ found = <<>>
    /\ accepted = <<>>
    /\ sample_indices = {}
    /\ similar_bids = {}

\* self.find_bid() with a last received bid, up to the end of the loop
\* (lines 228-253): the sample is drawn and filtered
FindBidSample ==
    /\ pc = "find_bid" /\ lastEvent = None
    /\ LET previous_offer_utility == getUtility(profile, last_received_bid)
       IN  \E sample \in random_indices(size(profile)) :
              /\ sample_indices' = sample
              /\ similar_bids' = similar_bids_with_concession(
                                     profile, sample, previous_offer_utility)
    /\ lastEvent' = "sampled"
    /\ UNCHANGED <<pc, profile, storage_dir, other, last_received_bid,
                   opponent_model, progress, data_md, terminated, offers,
                   created, finished, writes, raised, sent, found, accepted,
                   recent_offer>>

\* the rest of find_bid (lines 255-260): the bid it returns
FindBidReturn ==
    /\ pc = "find_bid" /\ lastEvent = "sampled"
    /\ \E bid \in (IF similar_bids = {} THEN AllBids(profile)
                   ELSE similar_bids) : found' = <<bid>>
    /\ lastEvent' = "find_bid"
    /\ UNCHANGED <<pc, profile, storage_dir, other, last_received_bid,
                   opponent_model, progress, data_md, terminated, offers,
                   created, finished, writes, raised, sent, accepted,
                   recent_offer, sample_indices, similar_bids>>

NextFind == FindBidSample \/ FindBidReturn

SpecFind == InitFind /\ [][NextFind]_vars

\* the bids of the sample find_bid went through
SampleBids == {get(profile, index) : index \in sample_indices}

\* the own utility of the last received bid is at most 0.9
LooseFilter == getUtility(profile, last_received_bid) <= ConcessionMargin

\* C12: with the margin 0.9, whenever the own utility of the last received
\* bid is at most 0.9 every sampled bid passes the filter: the filtered list
\* holds every bid of the sample and nothing else, and the returned bid is
\* drawn from it.
C12_LooseFilterKeepsSample ==
    /\ []((lastEvent = "sampled" /\ LooseFilter) =>
            /\ \A index \in sample_indices :
                  get(profile, index) \in similar_bids
            /\ Cardinality(similar_bids) = Cardinality(sample_indices))
    /\ [][lastEvent = "sampled" =>
            UNCHANGED <<sample_indices, similar_bids, last_received_bid>>]_vars
    /\ []((lastEvent = "find_bid" /\ LooseFilter) => found[1] \in similar_bids)

\* last received bid worth exactly 0.9, a sampled bid worth 0 returned
C12_Witness ==
    /\ lastEvent = "find_bid"
    /\ getUtility(profile, last_received_bid) = ConcessionMargin
    /\ getUtility(profile, found[1]) = 0
    /\ Cardinality(similar_bids) = Cardinality(sample_indices)

\* C13: when a sampled bid has own utility strictly greater than
\* previous_offer_utility - 0.9, find_bid returns a bid of the sample whose
\* utility is strictly greater than that threshold (never one exactly at the
\* threshold); it returns a bid from outside the sample or below the
\* threshold only when no sampled bid passes.
C13_ReturnsAboveThreshold ==
    lastEvent = "find_bid" =>
        LET threshold == getUtility(profile, last_received_bid) - ConcessionMargin
            passing == {bid \in SampleBids : getUtility(profile, bid) > threshold}
        IN  passing # {} =>
                /\ found[1] \in SampleBids
                /\ getUtility(profile, found[1]) > threshold

\* C14: find_bid samples exactly min(N, 500) distinct indices, all in
\* 0..N-1; when N <= 500 the sample is every index of the bid space.
C14_SampleSize ==
    lastEvent \in {"sampled", "find_bid"} =>
        /\ Cardinality(sample_indices) = Min(size(profile), max_bids_to_check)
        /\ sample_indices \subseteq 0..(size(profile) - 1)
        /\ size(profile) <= max_bids_to_check =>
              sample_indices = 0..(size(profile) - 1)

\* a bid space larger than the sample: one index is left out
C14_Witness ==
    /\ lastEvent = "find_bid"
    /\ size(profile) > max_bids_to_check
    /\ Cardinality(sample_indices) = max_bids_to_check
    /\ Cardinality((0..(size(profile) - 1)) \ sample_indices) = 1

\* C16: handling a YourTurn event changes neither the last received bid nor
\* the opponent model, so the next turn decides from the same session state.
C16_TurnKeepsState ==
    [][lastEvent' = "YourTurn" =>
          /\ last_received_bid' = last_received_bid
          /\ opponent_model' = opponent_model
          /\ offers' = offers /\ created' = created]_vars

C16_Witness ==
    /\ lastEvent = "YourTurn"
    /\ ~raised
    /\ sent = <<Offer(Me, found[1])>>
    /\ last_received_bid = recent_offer
    /\ offers = 1

\* C17: an Accept the agent sends carries the bid of the most recent opponent
\* offer, and none is sent while no opponent offer has been received.
C17_AcceptCarriesLastOffer ==
    \A k \in 1..Len(sent) :
        sent[k].type = "Accept" =>
            /\ offers >= 1
            /\ recent_offer # NoBid
            /\ sent[k].bid = recent_offer

\* an Accept after two different opponent offers, the agent's own bid being
\* a third bid
C17_Witness ==
    /\ offers = 2
    /\ sent = <<Accept(Me, recent_offer)>>
    /\ found[1] # recent_offer
    /\ \E i \in Issues(profile) :
          /\ opponent_model[i][recent_offer[i]] = 1
          /\ \E v \in 1..NumValues(profile)[i] :
                v # found[1][i] /\ opponent_model[i][v] = 1 /\ v # recent_offer[i]

\* C18: an ActionDone of the agent itself and an ActionDone of the opponent
\* that is not an Offer leave the last received bid and the opponent model as
\* they were; these change only while an opponent Offer is handled.
C18_OnlyOffersChangeState ==
    [][/\ lastEvent' \in {"OwnAction", "OpponentAccept"} =>
             /\ last_received_bid' = last_received_bid
             /\ opponent_model' = opponent_model
             /\ created' = created
       /\ (last_received_bid' # last_received_bid
              \/ opponent_model' # opponent_model) =>
             lastEvent' = "OpponentOffer"]_vars

C18_Witness ==
    /\ lastEvent \in {"OwnAction", "OpponentAccept"}
    /\ last_received_bid # NoBid
    /\ opponent_model # NoModel

\* C19: between handler calls the opponent model exists exactly when the last
\* received bid is set, and the last received bid is the bid of the most
\* recent Offer of another party.
C19_ModelIffLastBid ==
    /\ opponent_model = NoModel <=> last_received_bid = NoBid
    /\ last_received_bid = recent_offer

\* the second of two different opponent offers is the last received bid
C19_Witness ==
    /\ offers = 2
    /\ last_received_bid = recent_offer
    /\ \E i \in Issues(profile) : opponent_model[i][recent_offer[i]] = 1
    /\ lastEvent = None

\* C20: progress never decreases, so once the progress is beyond T with an
\* opponent bid received (as it is after a turn answered at progress > T)
\* it stays beyond T and every later YourTurn is answered with the Accept of
\* the bid that is then the last received one, never with an Offer.
C20_LateTurnsAccept ==
    [][(progress > T /\ offers >= 1) =>
          /\ progress' > T
          /\ lastEvent' = "YourTurn" =>
                sent' = <<Accept(Me, last_received_bid')>>]_vars

C20_Witness ==
    /\ lastEvent = "YourTurn"
    /\ progress > T
    /\ offers = 2
    /\ sent = <<Accept(Me, last_received_bid)>>
    /\ getUtility(profile, found[1]) > getUtility(profile, last_received_bid)

====
